---- MODULE Spec2Model ----
(***************************************************************************)
(* Model of the statistics engine of p2p-node-stats (src/src/lib.rs):      *)
(* the two peer -> window maps of Stats, push_lossy, the three reducers    *)
(* (durations_mean, durations_std_dev, durations_error_with_ci) and the    *)
(* Display implementation that renders the report.                         *)
(*                                                                         *)
(* Three specifications share the variables:                               *)
(*   Spec / FairSpec  writers recording into the two CHashMaps while a     *)
(*                    reporter formats the Stats;                          *)
(*   PushSpec         push_lossy applied again and again to one Vec;       *)
(*   ReducerSpec      the reducers applied to a bounded set of inputs.     *)
(***************************************************************************)
EXTENDS Integers, Sequences, FiniteSets, TLC

(***************************************************************************)
(* Bounds of the model.                                                    *)
(***************************************************************************)
\* largest window_size a Stats is constructed with in Spec
MaxWindow == 2
\* record calls started in one behaviour of Spec
MaxRecords == 3
\* largest window_size in PushSpec
MaxK == 3
\* push_lossy calls in one behaviour of PushSpec
MaxPushes == 4
\* longest input of a reducer in ReducerSpec
MaxLen == 3

Peers == {"A", "B"}
Writers == {"w1", "w2"}
Stores == {"ping", "trans"}

(***************************************************************************)
(* Duration.  std::time::Duration counts whole nanoseconds; the model      *)
(* counts whole ticks of 10 ms.  An f64 number of seconds is a fixed-point *)
(* number of F64PerTick-ths of a tick, so that as_secs_f64 gains           *)
(* resolution and from_secs_f64 truncates it away again.                   *)
(***************************************************************************)
TicksPerSec == 100
F64PerTick == 10

Secs(n) == n * TicksPerSec
Millis(n) == (n * TicksPerSec) \div 1000

\* Duration::as_secs_f64
AsSecsF64(d) == d * F64PerTick

\* Duration::from_secs_f64: the fraction below one tick is dropped
FromSecsF64(x) == x \div F64PerTick

\* f64::sqrt on the fixed-point representation: the largest r with r*r <= x
RECURSIVE SqrtSearch(_, _, _)
SqrtSearch(x, lo, hi) ==
    IF lo >= hi THEN lo
    ELSE LET mid == (lo + hi + 1) \div 2
         IN  IF mid * mid <= x THEN SqrtSearch(x, mid, hi)
             ELSE SqrtSearch(x, lo, mid - 1)

SqrtF64(x) == SqrtSearch(x, 0, 46340)

\* Option<Duration>
None == << >>
Some(x) == << x >>
IsSome(o) == o /= << >>
Unwrap(o) == o[1]

(***************************************************************************)
(* push_lossy (lib.rs 132-138), statement by statement.                    *)
(***************************************************************************)
\* variant: the comparison written > instead of >=
NeedsEvictStrict(v, ws) == Len(v) > ws

\* if self.len() >= window_size
NeedsEvict(v, ws) == Len(v) >= ws

\* Vec::remove(0) asserts index < len and panics otherwise
RemovePanics(v) == Len(v) = 0

\* variant: the newest element is dropped instead of the oldest
RemoveLast(v) == SubSeq(v, 1, Len(v) - 1)

\* self.remove(0)
Remove0(v) == Tail(v)

\* variant: the element is inserted at the front
PushFront(v, e) == << e >> \o v

\* self.push(element)
Push(v, e) == Append(v, e)

\* whether push_lossy(element, window_size) unwinds
PushLossyPanics(v, ws) == NeedsEvict(v, ws) /\ RemovePanics(v)

\* the Vec after a push_lossy that returns
PushLossy(v, e, ws) == Push(IF NeedsEvict(v, ws) THEN Remove0(v) ELSE v, e)

(***************************************************************************)
(* The reducers (lib.rs 28-83).                                            *)
(***************************************************************************)
\* durations.iter().fold(init, |acc, x| acc + f(x))
RECURSIVE FoldDur(_, _)
FoldDur(acc, ds) == IF ds = << >> THEN acc ELSE FoldDur(acc + Head(ds), Tail(ds))

\* variant: the divisor is off by one
DurationsMeanOffByOne(durations) ==
    IF durations = << >> THEN None
    ELSE Some(FoldDur(Secs(0), durations) \div (Len(durations) + 1))

\* durations_mean
DurationsMean(durations) ==
    IF durations = << >> THEN None
    ELSE Some(FoldDur(Secs(0), durations) \div Len(durations))

\* .fold(0f64, |acc, x| acc + (x.as_secs_f64() - mean).powi(2))
RECURSIVE FoldSqDev(_, _, _)
FoldSqDev(acc, ds, mean) ==
    IF ds = << >> THEN acc
    ELSE FoldSqDev(acc + (AsSecsF64(Head(ds)) - mean) * (AsSecsF64(Head(ds)) - mean),
                   Tail(ds), mean)

\* variant: the sample-corrected deviation, divisor n - 1
DurationsStdDevBessel(durations) ==
    IF ~IsSome(DurationsMean(durations)) THEN None
    ELSE LET mean == AsSecsF64(Unwrap(DurationsMean(durations)))
             n == IF Len(durations) > 1 THEN Len(durations) - 1 ELSE 1
         IN  Some(FromSecsF64(SqrtF64(FoldSqDev(0, durations, mean) \div n)))

\* variant: no deviation is reported for fewer than two samples
DurationsStdDevNeedsTwo(durations) ==
    IF Len(durations) < 2 THEN None
    ELSE LET mean == AsSecsF64(Unwrap(DurationsMean(durations)))
         IN  Some(FromSecsF64(SqrtF64(FoldSqDev(0, durations, mean) \div Len(durations))))

\* durations_std_dev
DurationsStdDev(durations) ==
    IF ~IsSome(DurationsMean(durations)) THEN None
    ELSE LET mean == AsSecsF64(Unwrap(DurationsMean(durations)))
         IN  Some(FromSecsF64(SqrtF64(FoldSqDev(0, durations, mean) \div Len(durations))))

\* let z = 1.96
ZNum == 196
ZDen == 100
\* resolution of (durations.len() as f64).sqrt()
RootScale == 100

\* durations_error_with_ci
DurationsErrorWithCi(durations) ==
    IF ~IsSome(DurationsStdDev(durations)) THEN None
    ELSE LET std_dev == AsSecsF64(Unwrap(DurationsStdDev(durations)))
             root == SqrtF64(Len(durations) * RootScale * RootScale)
         IN  Some(FromSecsF64((ZNum * std_dev * RootScale) \div (ZDen * root)))

(***************************************************************************)
(* The report text (lib.rs 85-126) as a sequence of tokens.                *)
(***************************************************************************)
NL == << "nl" >>
Text(s) == << "text", s >>
\* "{:?} {:?}±{:?}" of store s (with " per byte" when s is the transmission store)
Numeric(s, peer, mean, error) == << "numeric", s, peer, mean, error >>
\* "No ping data for peer {:?}" / "No transmission data for peer {:?}"
NoData(s, peer) == << "nodata", s, peer >>

\* the closure of .map(|(peer, durations)| ...) for store s
PeerLine(s, peer, durations) ==
    IF IsSome(DurationsMean(durations)) /\ IsSome(DurationsErrorWithCi(durations))
    THEN << Numeric(s, peer, Unwrap(DurationsMean(durations)),
                    Unwrap(DurationsErrorWithCi(durations))), NL >>
    ELSE << NoData(s, peer) >>

\* .into_iter().map(...).collect::<String>() over a cloned map
RECURSIVE Collect(_, _)
Collect(s, entries) ==
    IF entries = << >> THEN << >>
    ELSE PeerLine(s, Head(entries)[1], Head(entries)[2]) \o Collect(s, Tail(entries))

PingHeader == Text("Ping mean for each peer:")
TransmissionHeader == Text("Transmission rate mean by peer:")

\* write!(f, "{:?}\nPing mean for each peer:\n{}Transmission rate mean by peer:\n{}", ...)
FormatStats(id, ping, transmission) ==
    << Text(id), NL, PingHeader, NL >> \o ping \o << TransmissionHeader, NL >> \o transmission

(***************************************************************************)
(* State.                                                                  *)
(***************************************************************************)
VARIABLES
    window_size,                \* Stats.window_size
    pings_to_peers,             \* Stats.pings_to_peers: peer -> Vec<Duration>
    transmissions_rates,        \* Stats.transmissions_rates
    guard,                      \* per store and key: the writer holding the bucket's write guard
    pc,                         \* per writer: where its record call stands
    call,                       \* per writer: << store, peer, sample >> of its call
    started,                    \* record calls started so far
    history,                    \* per store and peer: the samples in the order their calls took the guard
    committed,                  \* per store: the map as it stood when each guard was last released
    rpc,                        \* where the reporter's fmt stands
    todo,                       \* buckets the running clone() has not visited
    snap,                       \* per store: the entries of the clone, in iteration order
    ping_by_peer,               \* fmt's local of that name
    transmission_rate_by_peer,  \* fmt's local of that name
    report,                     \* what fmt wrote
    vec,                        \* PushSpec: the Vec
    pushed,                     \* PushSpec: the elements of the calls that returned
    unwound,                    \* PushSpec: a call panicked
    input,                      \* ReducerSpec: the &Vec<Duration> handed to the reducers
    computed,                   \* ReducerSpec: the reducers that have run
    mean_out,                   \* ReducerSpec: durations_mean's result
    std_out,                    \* ReducerSpec: durations_std_dev's result
    err_out                     \* ReducerSpec: durations_error_with_ci's result

storeVars == << window_size, pings_to_peers, transmissions_rates, guard, pc, call,
                started, history, committed >>
reportVars == << rpc, todo, snap, ping_by_peer, transmission_rate_by_peer, report >>
pushVars == << vec, pushed, unwound >>
reducerVars == << input, computed, mean_out, std_out, err_out >>
vars == << storeVars, reportVars, pushVars, reducerVars >>

\* Stats.peer_id
SelfPeerId == "self"

\* samples the writers record
Samples == {Secs(1), Secs(3)}

\* the CHashMap behind a store name
StoreOf(s) == IF s = "ping" THEN pings_to_peers ELSE transmissions_rates

SetStore(s, m) ==
    /\ pings_to_peers' = IF s = "ping" THEN m ELSE pings_to_peers
    /\ transmissions_rates' = IF s = "trans" THEN m ELSE transmissions_rates

\* a map with key p bound to v
Bind(m, p, v) == [q \in DOMAIN m \cup {p} |-> IF q = p THEN v ELSE m[q]]

EmptyMap == [q \in {} |-> << >>]

(***************************************************************************)
(* Stats::new (lib.rs 12-19): two empty maps; any usize is accepted.       *)
(***************************************************************************)
StoreEmpty ==
    /\ pings_to_peers = EmptyMap
    /\ transmissions_rates = EmptyMap
    /\ guard = [s \in Stores |-> [p \in Peers |-> "free"]]
    /\ pc = [w \in Writers |-> "idle"]
    /\ call = [w \in Writers |-> << >>]
    /\ started = 0
    /\ history = [s \in Stores |-> [p \in Peers |-> << >>]]
    /\ committed = [s \in Stores |-> EmptyMap]

ReportInit ==
    /\ rpc = "idle"
    /\ todo = {}
    /\ snap = [s \in Stores |-> << >>]
    /\ ping_by_peer = << >>
    /\ transmission_rate_by_peer = << >>
    /\ report = << >>

PushIdle ==
    /\ vec = << >>
    /\ pushed = << >>
    /\ unwound = FALSE

ReducerIdle ==
    /\ input = << >>
    /\ computed = {}
    /\ mean_out = None
    /\ std_out = None
    /\ err_out = None

Init ==
    /\ window_size \in 0..MaxWindow
    /\ StoreEmpty /\ ReportInit /\ PushIdle /\ ReducerIdle

(***************************************************************************)
(* record(peer, sample) by one writer.  The call takes the write guard of  *)
(* the peer's bucket, creating an empty window for a new peer, and runs    *)
(* push_lossy on the &mut Vec behind the guard; the guard is dropped when  *)
(* push_lossy returns or unwinds.                                          *)
(***************************************************************************)
StartRecord(w) ==
    /\ pc[w] = "idle"
    /\ started < MaxRecords
    /\ \E s \in Stores, p \in Peers, d \in Samples : call' = [call EXCEPT ![w] = << s, p, d >>]
    /\ pc' = [pc EXCEPT ![w] = "waiting"]
    /\ started' = started + 1
    /\ UNCHANGED << window_size, pings_to_peers, transmissions_rates, guard, history, committed >>
    /\ UNCHANGED << reportVars, pushVars, reducerVars >>

\* the bucket's write guard can be taken
CanWrite(s, p) == guard[s][p] = "free"

AcquireWindow(w) ==
    /\ pc[w] = "waiting"
    /\ LET s == call[w][1]
           p == call[w][2]
           d == call[w][3]
       IN  /\ CanWrite(s, p)
           /\ guard' = [guard EXCEPT ![s][p] = w]
           /\ SetStore(s, IF p \in DOMAIN StoreOf(s) THEN StoreOf(s)
                          ELSE Bind(StoreOf(s), p, << >>))
           /\ history' = [history EXCEPT ![s][p] = Append(@, d)]
    /\ pc' = [pc EXCEPT ![w] = "locked"]
    /\ UNCHANGED << window_size, call, started, committed >>
    /\ UNCHANGED << reportVars, pushVars, reducerVars >>

\* lib.rs 134-136 when remove(0) returns (or is skipped)
EvictOldest(w) ==
    /\ pc[w] = "locked"
    /\ LET s == call[w][1]
           p == call[w][2]
           v == StoreOf(s)[p]
       IN  /\ ~PushLossyPanics(v, window_size)
           /\ SetStore(s, Bind(StoreOf(s), p,
                               IF NeedsEvict(v, window_size) THEN Remove0(v) ELSE v))
    /\ pc' = [pc EXCEPT ![w] = "evicted"]
    /\ UNCHANGED << window_size, guard, call, started, history, committed >>
    /\ UNCHANGED << reportVars, pushVars, reducerVars >>

\* lib.rs 135 when remove(0) panics: the Vec is untouched, the guard is dropped
\* by the unwinding, the writer's thread is gone
RecordPanics(w) ==
    /\ pc[w] = "locked"
    /\ LET s == call[w][1]
           p == call[w][2]
       IN  /\ PushLossyPanics(StoreOf(s)[p], window_size)
           /\ guard' = [guard EXCEPT ![s][p] = "free"]
           /\ committed' = [committed EXCEPT ![s] = Bind(@, p, StoreOf(s)[p])]
    /\ pc' = [pc EXCEPT ![w] = "panicked"]
    /\ UNCHANGED << window_size, pings_to_peers, transmissions_rates, call, started, history >>
    /\ UNCHANGED << reportVars, pushVars, reducerVars >>

\* lib.rs 137, then the return and the drop of the guard
PushAndRelease(w) ==
    /\ pc[w] = "evicted"
    /\ LET s == call[w][1]
           p == call[w][2]
           d == call[w][3]
           v == Push(StoreOf(s)[p], d)
       IN  /\ SetStore(s, Bind(StoreOf(s), p, v))
           /\ guard' = [guard EXCEPT ![s][p] = "free"]
           /\ committed' = [committed EXCEPT ![s] = Bind(@, p, v)]
    /\ pc' = [pc EXCEPT ![w] = "idle"]
    /\ call' = [call EXCEPT ![w] = << >>]
    /\ UNCHANGED << window_size, started, history >>
    /\ UNCHANGED << reportVars, pushVars, reducerVars >>

(***************************************************************************)
(* Display::fmt (lib.rs 86-125) by the reporter.  CHashMap::clone visits   *)
(* the buckets one at a time, each under that bucket's read guard.         *)
(***************************************************************************)
StartReport ==
    /\ rpc = "idle"
    /\ rpc' = "ping"
    /\ todo' = Peers
    /\ snap' = [s \in Stores |-> << >>]
    /\ ping_by_peer' = << >>
    /\ transmission_rate_by_peer' = << >>
    /\ report' = << >>
    /\ UNCHANGED << storeVars, pushVars, reducerVars >>

\* variant: the clone reads the bucket without taking its guard
CanCloneUnguarded(s, p) == TRUE

\* the bucket's read guard can be taken
CanClone(s, p) == guard[s][p] = "free"

\* self.pings_to_peers.clone() / self.transmissions_rates.clone(), one bucket
CloneBucket(s, p) ==
    /\ rpc = s
    /\ p \in todo
    /\ CanClone(s, p)
    /\ todo' = todo \ {p}
    /\ snap' = IF p \in DOMAIN StoreOf(s)
               THEN [snap EXCEPT ![s] = Append(@, << p, StoreOf(s)[p] >>)]
               ELSE snap
    /\ UNCHANGED << rpc, ping_by_peer, transmission_rate_by_peer, report >>
    /\ UNCHANGED << storeVars, pushVars, reducerVars >>

\* .into_iter().map(...).collect() of the ping clone (lib.rs 90-102)
CollectPings ==
    /\ rpc = "ping"
    /\ todo = {}
    /\ ping_by_peer' = Collect("ping", snap["ping"])
    /\ rpc' = "trans"
    /\ todo' = Peers
    /\ UNCHANGED << snap, transmission_rate_by_peer, report >>
    /\ UNCHANGED << storeVars, pushVars, reducerVars >>

\* the same of the transmission clone (lib.rs 107-119)
CollectTransmissions ==
    /\ rpc = "trans"
    /\ todo = {}
    /\ transmission_rate_by_peer' = Collect("trans", snap["trans"])
    /\ rpc' = "write"
    /\ UNCHANGED << todo, snap, ping_by_peer, report >>
    /\ UNCHANGED << storeVars, pushVars, reducerVars >>

\* write!(f, ...) (lib.rs 120-124)
WriteReport ==
    /\ rpc = "write"
    /\ report' = FormatStats(SelfPeerId, ping_by_peer, transmission_rate_by_peer)
    /\ rpc' = "idle"
    /\ UNCHANGED << todo, snap, ping_by_peer, transmission_rate_by_peer >>
    /\ UNCHANGED << storeVars, pushVars, reducerVars >>

WriterProgress(w) ==
    \/ AcquireWindow(w)
    \/ EvictOldest(w)
    \/ RecordPanics(w)
    \/ PushAndRelease(w)

ReporterProgress ==
    \/ \E s \in Stores, p \in Peers : CloneBucket(s, p)
    \/ CollectPings
    \/ CollectTransmissions
    \/ WriteReport

Next ==
    \/ \E w \in Writers : StartRecord(w)
    \/ \E w \in Writers : WriterProgress(w)
    \/ StartReport
    \/ ReporterProgress

Spec == Init /\ [][Next]_vars

\* a thread that can take a step is scheduled; a guard that is free often enough is granted
FairSpec ==
    /\ Init
    /\ [][Next]_vars
    /\ \A w \in Writers : WF_vars(WriterProgress(w))
    /\ WF_vars(ReporterProgress)

(***************************************************************************)
(* PushSpec: record calls one after another for one peer, that is          *)
(* push_lossy (lib.rs 132-138) applied to one Vec that starts empty.       *)
(***************************************************************************)
PushSamples == {Secs(1), Secs(3), Secs(5), Secs(7)}

PushInit ==
    /\ window_size \in 0..MaxK
    /\ StoreEmpty /\ ReportInit /\ PushIdle /\ ReducerIdle

\* a call that returns
PushLossyReturns(e) ==
    /\ Len(pushed) < MaxPushes
    /\ ~PushLossyPanics(vec, window_size)
    /\ vec' = PushLossy(vec, e, window_size)
    /\ pushed' = Append(pushed, e)
    /\ UNCHANGED << unwound, storeVars, reportVars, reducerVars >>

\* a call that panics in remove(0): the Vec is as it was
PushLossyUnwinds(e) ==
    /\ Len(pushed) < MaxPushes
    /\ PushLossyPanics(vec, window_size)
    /\ unwound' = TRUE
    /\ UNCHANGED << vec, pushed, storeVars, reportVars, reducerVars >>

PushNext ==
    \/ \E e \in PushSamples : PushLossyReturns(e)
    \/ \E e \in PushSamples : PushLossyUnwinds(e)

PushSpec == PushInit /\ [][PushNext]_vars

(***************************************************************************)
(* ReducerSpec: the three reducers applied to one input.                   *)
(***************************************************************************)
ReducerSamples == {Secs(0), Millis(250), Secs(1), Secs(3), Secs(5)}

\* the sequences over S of length at most n
SeqsUpTo(S, n) == UNION {[1..k -> S] : k \in 0..n}

ReducerInit ==
    /\ window_size = 0
    /\ StoreEmpty /\ ReportInit /\ PushIdle
    /\ input \in SeqsUpTo(ReducerSamples, MaxLen)
    /\ computed = {}
    /\ mean_out = None
    /\ std_out = None
    /\ err_out = None

RunMean ==
    /\ "mean" \notin computed
    /\ mean_out' = DurationsMean(input)
    /\ computed' = computed \cup {"mean"}
    /\ UNCHANGED << input, std_out, err_out, storeVars, reportVars, pushVars >>

RunStdDev ==
    /\ "std_dev" \notin computed
    /\ std_out' = DurationsStdDev(input)
    /\ computed' = computed \cup {"std_dev"}
    /\ UNCHANGED << input, mean_out, err_out, storeVars, reportVars, pushVars >>

RunErrorWithCi ==
    /\ "error" \notin computed
    /\ err_out' = DurationsErrorWithCi(input)
    /\ computed' = computed \cup {"error"}
    /\ UNCHANGED << input, mean_out, std_out, storeVars, reportVars, pushVars >>

ReducerNext == RunMean \/ RunStdDev \/ RunErrorWithCi

ReducerSpec == ReducerInit /\ [][ReducerNext]_vars

(***************************************************************************)
(* Helpers of the properties.                                              *)
(***************************************************************************)
MinOf(a, b) == IF a <= b THEN a ELSE b

AbsOf(x) == IF x < 0 THEN 0 - x ELSE x

\* the last MinOf(Len(h), k) elements of h
LastK(h, k) == SubSeq(h, Len(h) - MinOf(Len(h), k) + 1, Len(h))

\* d[1] + ... + d[i]
RECURSIVE SumTo(_, _)
SumTo(d, i) == IF i = 0 THEN 0 ELSE SumTo(d, i - 1) + d[i]

\* the sum over d[1..i] of the squared distance to m, in f64 units
RECURSIVE SqDevTo(_, _, _)
SqDevTo(d, i, m) ==
    IF i = 0 THEN 0
    ELSE SqDevTo(d, i - 1, m) + (AsSecsF64(d[i]) - m) * (AsSecsF64(d[i]) - m)

\* no record call is between its start and its end
Quiescent == \A w \in Writers : pc[w] \in {"idle", "panicked"}

RECURSIVE TotalLen(_, _)
TotalLen(h, todoSet) ==
    IF todoSet = {} THEN 0
    ELSE LET x == CHOOSE y \in todoSet : TRUE
         IN  Len(h[x[1]][x[2]]) + TotalLen(h, todoSet \ {x})

(***************************************************************************)
(* C1.  Every window of either store holds at most window_size samples,    *)
(* in every reachable state (between the statements of push_lossy too),    *)
(* for every window_size from 0 up.                                        *)
(***************************************************************************)
C1_WindowBounded ==
    \A s \in Stores : \A p \in DOMAIN StoreOf(s) : Len(StoreOf(s)[p]) <= window_size

\* a full window that has already lost its oldest sample
C1_Witness ==
    \E s \in Stores : \E p \in DOMAIN StoreOf(s) :
        /\ window_size >= 1
        /\ guard[s][p] = "free"
        /\ Len(history[s][p]) > window_size
        /\ Len(StoreOf(s)[p]) = window_size

(***************************************************************************)
(* C2.  After n > k push_lossy calls, one after another, on a window that  *)
(* started empty (window_size = k), the window holds exactly the last k    *)
(* elements pushed, in the order they were pushed; with k = 3 and          *)
(* 1s, 3s, 5s, 7s it holds 3s, 5s, 7s.                                     *)
(***************************************************************************)
C2_LastKRetained ==
    /\ Len(pushed) > window_size =>
          /\ Len(vec) = window_size
          /\ \A i \in 1..window_size : vec[i] = pushed[Len(pushed) - window_size + i]
    /\ (window_size = 3 /\ pushed = << Secs(1), Secs(3), Secs(5), Secs(7) >>) =>
          vec = << Secs(3), Secs(5), Secs(7) >>

C2_Witness ==
    /\ window_size = 3
    /\ pushed = << Secs(1), Secs(3), Secs(5), Secs(7) >>
    /\ vec = << Secs(3), Secs(5), Secs(7) >>

(***************************************************************************)
(* C3.  Once every record call has ended, whatever the interleaving of the *)
(* writers: a store holds a window for exactly the peers recorded into it, *)
(* every started call is in the serial order of its window exactly once,   *)
(* and each window is the last min(count, window_size) samples of that     *)
(* serial order.                                                           *)
(***************************************************************************)
C3_NoLostUpdate ==
    Quiescent =>
        /\ TotalLen(history, Stores \X Peers) = started
        /\ \A s \in Stores : \A p \in Peers :
              /\ (p \in DOMAIN StoreOf(s)) <=> (history[s][p] /= << >>)
              /\ p \in DOMAIN StoreOf(s) =>
                    StoreOf(s)[p] = LastK(history[s][p], window_size)

\* all calls done, one window has seen more calls than it can hold, another peer or
\* store has been recorded too
C3_Witness ==
    /\ Quiescent
    /\ started = MaxRecords
    /\ window_size >= 1
    /\ \E s \in Stores, p \in Peers :
          /\ Len(history[s][p]) > window_size
          /\ Len(history[s][p]) < started

(***************************************************************************)
(* C4.  No record call panics, whatever the window_size and the state of   *)
(* the window.                                                             *)
(***************************************************************************)
C4_RecordNeverPanics == \A w \in Writers : pc[w] /= "panicked"

(***************************************************************************)
(* C5.  In a written report every peer of a clone has exactly one entry    *)
(* in its section, numeric when its window is non-empty and "no data"      *)
(* when it is empty, and every entry is a line of its own: it follows a    *)
(* line break and is followed by one, so that the next entry and the       *)
(* transmission header start on a new line.                                *)
(***************************************************************************)
IsEntry(tok) == tok[1] \in {"numeric", "nodata"}

EntryFor(tok, s, p) ==
    \/ tok[1] = "numeric" /\ tok[2] = s /\ tok[3] = p
    \/ tok[1] = "nodata" /\ tok[2] = s /\ tok[3] = p

C5_OneLinePerPeer ==
    (rpc = "idle" /\ report /= << >>) =>
        /\ \A s \in Stores : \A k \in 1..Len(snap[s]) :
              LET p == snap[s][k][1]
                  ds == snap[s][k][2]
                  at == {i \in 1..Len(report) : EntryFor(report[i], s, p)}
              IN  /\ Cardinality(at) = 1
                  /\ \A i \in at : (report[i][1] = "numeric") <=> (ds /= << >>)
        /\ \A i \in 1..Len(report) :
              IsEntry(report[i]) =>
                  /\ report[i - 1][1] = "nl"
                  /\ i < Len(report) /\ report[i + 1][1] = "nl"
        /\ \A i \in 1..Len(report) :
              (report[i][1] = "text" /\ report[i] = TransmissionHeader) =>
                  report[i - 1][1] = "nl"

(***************************************************************************)
(* C6.  Each reducer returns None exactly when its input is empty; on one  *)
(* sample durations_std_dev is zero and durations_error_with_ci is Some.   *)
(***************************************************************************)
C6_AbsentIffEmpty ==
    /\ "mean" \in computed => (IsSome(mean_out) <=> input /= << >>)
    /\ "std_dev" \in computed => (IsSome(std_out) <=> input /= << >>)
    /\ "error" \in computed => (IsSome(err_out) <=> input /= << >>)
    /\ ("std_dev" \in computed /\ Len(input) = 1) => std_out = Some(Secs(0))
    /\ ("error" \in computed /\ Len(input) = 1) => IsSome(err_out)

C6_Witness ==
    /\ Len(input) = 1
    /\ computed = {"mean", "std_dev", "error"}
    /\ IsSome(mean_out)
    /\ std_out = Some(Secs(0))
    /\ IsSome(err_out)

(***************************************************************************)
(* C7.  On a non-empty input durations_mean returns the sum of the samples *)
(* divided by their number (to the resolution of Duration): m with         *)
(* m * n <= sum < (m + 1) * n; the mean of 1s, 3s, 5s is 3s.               *)
(***************************************************************************)
C7_MeanIsSumOverCount ==
    ("mean" \in computed /\ input /= << >>) =>
        /\ IsSome(mean_out)
        /\ Unwrap(mean_out) * Len(input) <= SumTo(input, Len(input))
        /\ SumTo(input, Len(input)) < (Unwrap(mean_out) + 1) * Len(input)
        /\ input = << Secs(1), Secs(3), Secs(5) >> => mean_out = Some(Secs(3))

C7_Witness ==
    /\ input = << Secs(1), Secs(3), Secs(5) >>
    /\ "mean" \in computed
    /\ mean_out = Some(Secs(3))

(***************************************************************************)
(* C8.  durations_std_dev is the population standard deviation: with V the *)
(* sum of the squared distances to the mean and n the number of samples,   *)
(* the result r is the square root of V / n (divisor n, not n - 1) to the  *)
(* resolution of Duration: r^2 * n <= V < (r + 1 tick)^2 * n.  For         *)
(* 1s, 3s, 5s it is within 0.01 s of 1.633 s.                              *)
(***************************************************************************)
C8_PopulationStdDev ==
    ("std_dev" \in computed /\ input /= << >>) =>
        LET n == Len(input)
            m == AsSecsF64(SumTo(input, n) \div n)
            V == SqDevTo(input, n, m)
            r == Unwrap(std_out)
        IN  /\ IsSome(std_out)
            /\ AsSecsF64(r) * AsSecsF64(r) * n <= V
            /\ V < AsSecsF64(r + 1) * AsSecsF64(r + 1) * n
            /\ input = << Secs(1), Secs(3), Secs(5) >> =>
                  AbsOf(AsSecsF64(r) - AsSecsF64(Millis(1633))) < AsSecsF64(Millis(10))

C8_Witness ==
    /\ input = << Secs(1), Secs(3), Secs(5) >>
    /\ "std_dev" \in computed
    /\ std_out = Some(Millis(1630))

(***************************************************************************)
(* C9.  Under fair scheduling every started record call returns and every  *)
(* started report is written.                                              *)
(***************************************************************************)
C9_EveryCallCompletes ==
    /\ \A w \in Writers : (pc[w] = "waiting") ~> (pc[w] = "idle")
    /\ (rpc /= "idle") ~> (rpc = "idle")

(***************************************************************************)
(* C10.  Every window the reporter's clone reads is the window as it stood *)
(* when its guard was last released (never the state between remove(0) and *)
(* push), so it holds at most window_size samples; and no step of the      *)
(* reporter changes either store.                                          *)
(***************************************************************************)
C10_NoTornRead ==
    [][ /\ \A s \in Stores :
              (rpc = s /\ snap'[s] /= snap[s]) =>
                  LET e == snap'[s][Len(snap'[s])]
                  IN  /\ e[1] \in DOMAIN committed[s]
                      /\ e[2] = committed[s][e[1]]
                      /\ Len(e[2]) <= window_size
        /\ reportVars' /= reportVars =>
              UNCHANGED << pings_to_peers, transmissions_rates >>
      ]_vars

\* the clone holds a peer's window while a writer is between remove(0) and push on it
C10_Witness ==
    \E s \in Stores, w \in Writers :
        /\ pc[w] = "evicted"
        /\ call[w][1] = s
        /\ rpc = s
        /\ window_size >= 1
        /\ Len(history[s][call[w][2]]) > window_size
        /\ \E k \in 1..Len(snap[s]) : snap[s][k][1] = call[w][2]

====
